---- MODULE Spec2Model ----
(***************************************************************************)
(* Jogo da memoria (src/memoria.py): the cards, the click handler, the     *)
(* match resolver and the main loop, as a state machine.                   *)
(*                                                                         *)
(* Spec     the game loop roda_loop on a board of 2 * NumPares cards       *)
(*          (the program has 20 cards; every shuffle of the scaled deck    *)
(*          is an initial state).                                          *)
(* SpecGeo  the hit test foi_clicada and trata_clique on the full 20-card  *)
(*          layout, applied to every pixel of the 380 x 480 window.        *)
(***************************************************************************)
EXTENDS Integers, Sequences, FiniteSets, TLC

VARIABLES
    cartas,     \* Tela.cartas: list of Carta objects, indexed from 0
    pc,         \* position of roda_loop / jogo
    restantes,  \* events of pygame.event.get() not yet visited by the for loop
    coord,      \* parameter coord of the last trata_clique call of this frame, <<>> if none
    acertos     \* indices of the cards whose foi_clicada(coord) returned True

vars == <<cartas, pc, restantes, coord, acertos>>

\* ---------------------------------------------------------------- bounds
\* pairs on the board of Spec (the program deals ParesDoJogo pairs)
NumPares == 2
\* longest event list one pygame.event.get() call returns in Spec
MaxEventos == 2

\* ------------------------------------------------------ program constants
ParesDoJogo == 10
cartas_por_linha == 5
largura == 40
altura == 80
margem == 50
espaco_entre_cartas == 20
tela_largura == 380
tela_altura == 480

\* ------------------------------------------------------------------ Carta

\* Carta.define_coordenadas: <<pos_x, pos_y>> of the card with this index
DefineCoordenadasSemEspaco(indice) ==
    LET linha == indice \div cartas_por_linha
        coluna == indice % cartas_por_linha
    IN  <<coluna * largura, linha * altura>>

DefineCoordenadas(indice) ==
    LET linha == indice \div cartas_por_linha
        coluna == indice % cartas_por_linha
        pos_y == linha * (altura + espaco_entre_cartas)
        pos_x == coluna * (largura + espaco_entre_cartas)
    IN  <<pos_x, pos_y>>

\* Carta.__init__ with the class-level defaults virada = combinada = False
Carta(valor, indice) ==
    [valor |-> valor,
     posx |-> DefineCoordenadas(indice)[1],
     posy |-> DefineCoordenadas(indice)[2],
     indice |-> indice,
     virada |-> FALSE,
     combinada |-> FALSE]

\* Carta.virar
VirarAlterna(carta) == [carta EXCEPT !.virada = ~carta.virada]

Virar(carta) == [carta EXCEPT !.virada = TRUE]

\* Carta.foi_clicada
FoiClicadaSoY(carta, c) ==
    LET vertice_inferior == margem + carta.posy + altura
    IN  margem + carta.posy <= c[2] /\ c[2] <= vertice_inferior

FoiClicadaEstrita(carta, c) ==
    LET vertice_direito == margem + carta.posx + largura
        vertice_inferior == margem + carta.posy + altura
    IN  IF margem + carta.posx <= c[1] /\ c[1] < vertice_direito
        THEN IF margem + carta.posy <= c[2] /\ c[2] < vertice_inferior
             THEN TRUE
             ELSE FALSE
        ELSE FALSE

FoiClicada(carta, c) ==
    LET vertice_direito == margem + carta.posx + largura
        vertice_inferior == margem + carta.posy + altura
    IN  IF margem + carta.posx <= c[1] /\ c[1] <= vertice_direito
        THEN IF margem + carta.posy <= c[2] /\ c[2] <= vertice_inferior
             THEN TRUE
             ELSE FALSE
        ELSE FALSE

\* ------------------------------------------------------------------- Tela

\* valores = list(range(20 // 2)) * 2, for n pairs
ValoresSemPar(n) == [i \in 0..(2 * n - 1) |-> i]

Valores(n) == [i \in 0..(2 * n - 1) |-> i % n]

\* random.shuffle(valores): every permutation of the list is an outcome
Shuffle(valores) ==
    {[i \in DOMAIN valores |-> valores[p[i]]] : p \in Permutations(DOMAIN valores)}

\* the list comprehension of Tela.cria_cartas over the shuffled values
CriaCartas(valores) == [indice \in DOMAIN valores |-> Carta(valores[indice], indice)]

\* ----------------------------------------------------------- trata_clique

TrataCliqueNaClasse(c, cs) ==
    IF \E i \in DOMAIN cs : FoiClicada(cs[i], c)
    THEN [i \in DOMAIN cs |-> Virar(cs[i])]
    ELSE cs

TrataClique(c, cs) ==
    [i \in DOMAIN cs |-> IF FoiClicada(cs[i], c) THEN Virar(cs[i]) ELSE cs[i]]

\* ------------------------------------------- ocultar_cartas_se_necessario

\* the list indices after the first loop has visited cs[0..k-1]
RECURSIVE IndicesAte(_, _)
IndicesAte(cs, k) ==
    IF k = 0 THEN <<>>
    ELSE LET prev == IndicesAte(cs, k - 1)
             carta == cs[k - 1]
         IN  IF carta.combinada = FALSE /\ carta.virada
             THEN Append(prev, carta.indice)
             ELSE prev

Indices(cs) == IndicesAte(cs, Cardinality(DOMAIN cs))

\* cartas_viradas after the first loop
CartasViradas(cs) == Len(Indices(cs))

\* lines 230-234: mark the two cards as a pair when their values are equal
MarcaSoPrimeira(cs, indices) ==
    IF cs[indices[1]].valor = cs[indices[2]].valor
    THEN [cs EXCEPT ![indices[1]].combinada = TRUE]
    ELSE cs

MarcaSempre(cs, indices) ==
    [cs EXCEPT ![indices[1]].combinada = TRUE, ![indices[2]].combinada = TRUE]

Marca(cs, indices) ==
    IF cs[indices[1]].valor = cs[indices[2]].valor
    THEN [cs EXCEPT ![indices[1]].combinada = TRUE, ![indices[2]].combinada = TRUE]
    ELSE cs

\* lines 235-237: hide every card that is not part of a pair
OcultaTodas(cs) == [i \in DOMAIN cs |-> [cs[i] EXCEPT !.virada = FALSE]]

Oculta(cs) ==
    [i \in DOMAIN cs |->
        IF cs[i].combinada = FALSE THEN [cs[i] EXCEPT !.virada = FALSE] ELSE cs[i]]

\* the card list after the whole function has run
OcultarSoNoPar(cs) ==
    IF CartasViradas(cs) = 2
    THEN IF cs[Indices(cs)[1]].valor = cs[Indices(cs)[2]].valor
         THEN Oculta(Marca(cs, Indices(cs)))
         ELSE cs
    ELSE cs

OcultarSempre(cs) ==
    IF CartasViradas(cs) = 2 THEN Oculta(Marca(cs, Indices(cs))) ELSE Oculta(cs)

OcultarCartasSeNecessario(cs) ==
    IF CartasViradas(cs) = 2 THEN Oculta(Marca(cs, Indices(cs))) ELSE cs

\* ----------------------------------------------------------- environment

\* centre of the rectangle of card indice
Centro(indice) ==
    <<margem + DefineCoordenadas(indice)[1] + largura \div 2,
      margem + DefineCoordenadas(indice)[2] + altura \div 2>>

\* pointer positions used in Spec: the centre of every card, the window
\* origin, a point in the gap between the first two columns and the top-left
\* corner of card 0
Pontos ==
    {Centro(i) : i \in 0..(2 * NumPares - 1)} \cup {<<0, 0>>, <<100, 90>>, <<50, 50>>}

\* where the pointer can be when a queued button event is handled, if it has
\* moved since the button was released: the window origin or card 1
PontosMovidos == {<<0, 0>>, Centro(1)}

\* the events pygame.event.get() can yield: pos is the position carried by a
\* button event (any of Pontos), mouse what pygame.mouse.get_pos() returns
\* while the event is handled (pos itself, or one of PontosMovidos)
Eventos ==
    {[tipo |-> "QUIT"], [tipo |-> "OUTRO"]}
    \cup {[tipo |-> "MOUSEBUTTONUP", pos |-> p, mouse |-> q] :
            p \in Pontos, q \in PontosMovidos}
    \cup {[tipo |-> "MOUSEBUTTONUP", pos |-> p, mouse |-> p] : p \in Pontos}

\* ------------------------------------------------------------------- Spec

Init ==
    /\ cartas \in {CriaCartas(v) : v \in Shuffle(Valores(NumPares))}
    /\ pc = "ocultar"
    /\ restantes = 0
    /\ coord = <<>>
    /\ acertos = {}

\* roda_loop line 250: the mutations of ocultar_cartas_se_necessario; the
\* function then sleeps when it found exactly two cards
Ocultar ==
    /\ pc = "ocultar"
    /\ cartas' = OcultarCartasSeNecessario(cartas)
    /\ pc' = IF CartasViradas(cartas) = 2 THEN "sleep" ELSE "eventos"
    /\ UNCHANGED <<restantes, coord, acertos>>

\* time.sleep(0.5), line 238
Sleep ==
    /\ pc = "sleep"
    /\ pc' = "eventos"
    /\ UNCHANGED <<cartas, restantes, coord, acertos>>

\* trata_eventos line 199: pygame.event.get() returns the queued events
EventGet ==
    /\ pc = "eventos"
    /\ \E k \in 0..MaxEventos : restantes' = k
    /\ pc' = "for"
    /\ UNCHANGED <<cartas, coord, acertos>>

\* lines 201-202: a QUIT event makes trata_eventos return True, the loop breaks
EventoQuit ==
    /\ pc = "for"
    /\ restantes > 0
    /\ \E e \in Eventos : e.tipo = "QUIT"
    /\ pc' = "encerra"
    /\ restantes' = 0
    /\ coord' = <<>>
    /\ acertos' = {}
    /\ UNCHANGED cartas

\* lines 204-205: trata_clique(pygame.mouse.get_pos(), cartas) for the event e
MouseButtonUp(e) ==
    /\ pc = "for"
    /\ restantes > 0
    /\ e.tipo = "MOUSEBUTTONUP"
    /\ coord' = e.mouse
    /\ acertos' = {i \in DOMAIN cartas : FoiClicada(cartas[i], e.mouse)}
    /\ cartas' = TrataClique(e.mouse, cartas)
    /\ restantes' = restantes - 1
    /\ pc' = "for"

EventoMouseButtonUp == \E e \in Eventos : MouseButtonUp(e)

\* any other event type falls through both ifs
EventoOutro ==
    /\ pc = "for"
    /\ restantes > 0
    /\ \E e \in Eventos : e.tipo = "OUTRO"
    /\ restantes' = restantes - 1
    /\ UNCHANGED <<cartas, pc, coord, acertos>>

\* line 207: the event list is exhausted, trata_eventos returns False
FimEventosRetornaTrue ==
    /\ pc = "for"
    /\ restantes = 0
    /\ pc' = "encerra"
    /\ coord' = <<>>
    /\ acertos' = {}
    /\ UNCHANGED <<cartas, restantes>>

FimEventosSemRender ==
    /\ pc = "for"
    /\ restantes = 0
    /\ pc' = "tick"
    /\ coord' = <<>>
    /\ acertos' = {}
    /\ UNCHANGED <<cartas, restantes>>

FimEventos ==
    /\ pc = "for"
    /\ restantes = 0
    /\ pc' = "renderiza"
    /\ coord' = <<>>
    /\ acertos' = {}
    /\ UNCHANGED <<cartas, restantes>>

\* what Desenha.cartas draws for each card
Desenho(cs) == [i \in DOMAIN cs |-> IF cs[i].virada THEN "carta_virada" ELSE "carta_oculta"]

\* tela.renderiza(), line 253: reads the cards, changes none
Renderiza ==
    /\ pc = "renderiza"
    /\ pc' = "tick"
    /\ UNCHANGED <<cartas, restantes, coord, acertos>>

\* pygame.time.Clock().tick(60), line 254, and back to the top of the loop
Tick ==
    /\ pc = "tick"
    /\ pc' = "ocultar"
    /\ UNCHANGED <<cartas, restantes, coord, acertos>>

\* encerra_jogo after the break
EncerraJogo ==
    /\ pc = "encerra"
    /\ pc' = "fim"
    /\ UNCHANGED <<cartas, restantes, coord, acertos>>

Next ==
    \/ Ocultar
    \/ Sleep
    \/ EventGet
    \/ EventoQuit
    \/ EventoMouseButtonUp
    \/ EventoOutro
    \/ FimEventos
    \/ Renderiza
    \/ Tick
    \/ EncerraJogo

Spec == Init /\ [][Next]_vars

\* the single thread of roda_loop keeps running: every call it makes (the
\* 0.5 s sleep, the event poll, the render, the 60 Hz tick) returns
SpecFair == Spec /\ WF_vars(Next)

\* ---------------------------------------------------------------- SpecGeo
\* The hit test on the program's own layout: the 20 cards of the unshuffled
\* deck (one outcome of the shuffle; positions do not depend on the values),
\* every pixel of the window as the click point.

InitGeo ==
    /\ cartas = CriaCartas(Valores(ParesDoJogo))
    /\ pc = "teste"
    /\ restantes = 0
    /\ coord = <<>>
    /\ acertos = {}

\* foi_clicada(coord) evaluated on every card
TestaGeo ==
    /\ pc = "teste"
    /\ \E x \in 0..(tela_largura - 1), y \in 0..(tela_altura - 1) :
        /\ coord' = <<x, y>>
        /\ acertos' = {i \in DOMAIN cartas : FoiClicada(cartas[i], <<x, y>>)}
    /\ pc' = "clique"
    /\ UNCHANGED <<cartas, restantes>>

\* trata_clique(coord, cartas) on the untouched board
CliqueGeo ==
    /\ pc = "clique"
    /\ cartas' = TrataClique(coord, cartas)
    /\ pc' = "clicado"
    /\ UNCHANGED <<restantes, coord, acertos>>

NextGeo == TestaGeo \/ CliqueGeo

SpecGeo == InitGeo /\ [][NextGeo]_vars

\* ----------------------------------------------------------------- claims

\* cards that are face-up and not part of a pair
ViradasNaoCombinadas == {i \in DOMAIN cartas : cartas[i].virada /\ ~cartas[i].combinada}

Combinadas == {i \in DOMAIN cartas : cartas[i].combinada}

\* the step just taken was a trata_clique call of the event loop; its point is coord'
PassoClique == pc = "for" /\ pc' = "for" /\ coord' # <<>>

\* the step just taken was a run of ocultar_cartas_se_necessario
PassoOcultar == pc = "ocultar" /\ pc' # "ocultar"

\* C1: a matched card is face-up in every reachable state, and no step of the
\* loop (click or resolver run) clears its matched flag or turns it face-down.
C1_MatchInvariant ==
    /\ [](\A i \in DOMAIN cartas : cartas[i].combinada => cartas[i].virada)
    /\ [][\A i \in DOMAIN cartas :
            cartas[i].combinada => cartas'[i].combinada /\ cartas'[i].virada]_vars

\* a matched pair is on the board while another card has been flipped by a
\* later click and a frame has been rendered
C1_Witness ==
    /\ pc = "tick"
    /\ Combinadas # {}
    /\ ViradasNaoCombinadas # {}

\* C2: the board has 2 * NumPares cards (20 in the program), every value of
\* 0..NumPares-1 is carried by exactly two cards, the card at position i has
\* indice i, and no step changes a card's valor, indice or position.
C2_BoardInvariant ==
    /\ [](/\ DOMAIN cartas = 0..(2 * NumPares - 1)
          /\ \A v \in 0..(NumPares - 1) :
                Cardinality({i \in DOMAIN cartas : cartas[i].valor = v}) = 2
          /\ \A i \in DOMAIN cartas : cartas[i].valor \in 0..(NumPares - 1)
          /\ \A i \in DOMAIN cartas : cartas[i].indice = i)
    /\ [][/\ DOMAIN cartas' = DOMAIN cartas
          /\ \A i \in DOMAIN cartas :
                /\ cartas'[i].valor = cartas[i].valor
                /\ cartas'[i].indice = cartas[i].indice
                /\ cartas'[i].posx = cartas[i].posx
                /\ cartas'[i].posy = cartas[i].posy]_vars

\* a shuffled board (the two cards of value 0 are not where the unshuffled
\* list has them) on which a pair has been found and a mismatch reverted
C2_Witness ==
    /\ pc = "sleep"
    /\ cartas[0].valor # 0
    /\ Cardinality(Combinadas) = 2
    /\ ViradasNaoCombinadas = {}
    /\ \E i \in DOMAIN cartas : ~cartas[i].combinada

\* C3: at most two cards are face-up and unmatched in every reachable state
\* (the click handler flips a card only while fewer than two are).
C3_ThirdFlipGuard == Cardinality(ViradasNaoCombinadas) <= 2

\* C4: a resolver run that finds exactly two unmatched face-up cards of equal
\* value marks exactly those two as matched, leaves both face-up and changes
\* no other card's matched flag.
C4_MatchBranch ==
    [][(/\ PassoOcultar
        /\ Cardinality(ViradasNaoCombinadas) = 2
        /\ \A i, j \in ViradasNaoCombinadas : cartas[i].valor = cartas[j].valor)
       => /\ \A i \in ViradasNaoCombinadas :
                cartas'[i].combinada /\ cartas'[i].virada
          /\ \A i \in DOMAIN cartas \ ViradasNaoCombinadas :
                cartas'[i].combinada = cartas[i].combinada]_vars

\* the resolver has just run and every card is matched: its run found the
\* last pair
C4_Witness ==
    /\ pc = "sleep"
    /\ Combinadas = DOMAIN cartas

\* C5: a resolver run that finds exactly two unmatched face-up cards of
\* different values leaves both face-down and unmatched, and changes the face
\* state of no other card and the matched flag of no card.
C5_MismatchBranch ==
    [][(/\ PassoOcultar
        /\ Cardinality(ViradasNaoCombinadas) = 2
        /\ \E i, j \in ViradasNaoCombinadas : cartas[i].valor # cartas[j].valor)
       => /\ \A i \in ViradasNaoCombinadas :
                ~cartas'[i].virada /\ ~cartas'[i].combinada
          /\ \A i \in DOMAIN cartas \ ViradasNaoCombinadas :
                cartas'[i].virada = cartas[i].virada
          /\ \A i \in DOMAIN cartas :
                cartas'[i].combinada = cartas[i].combinada
          /\ \A i \in Combinadas : cartas'[i].virada]_vars

\* the resolver has just found two cards and no card is matched afterwards:
\* the two were a mismatch and are face-down again
C5_Witness ==
    /\ pc = "sleep"
    /\ Combinadas = {}
    /\ \A i \in DOMAIN cartas : ~cartas[i].virada

\* C6: a click on a matched card changes no card, and once every card is
\* matched no step changes any card.
C6_SolvedFrozen ==
    /\ [][(PassoClique /\ acertos' # {} /\ \A i \in acertos' : cartas[i].combinada)
            => cartas' = cartas]_vars
    /\ [][(\A i \in DOMAIN cartas : cartas[i].combinada) => cartas' = cartas]_vars

\* a click has just landed on a card of the fully matched board
C6_Witness ==
    /\ pc = "for"
    /\ coord # <<>>
    /\ acertos # {}
    /\ Combinadas = DOMAIN cartas

\* the point lies outside the rectangle of every card
ForaDeTodas(c) ==
    \A i \in DOMAIN cartas :
        \/ c[1] < margem + cartas[i].posx
        \/ c[1] > margem + cartas[i].posx + largura
        \/ c[2] < margem + cartas[i].posy
        \/ c[2] > margem + cartas[i].posy + altura

\* C7: a click at a point outside every card rectangle changes no card and
\* the event loop carries on.
C7_ClickOutsideIgnored ==
    [][(PassoClique /\ ForaDeTodas(coord'))
        => cartas' = cartas /\ acertos' = {} /\ restantes' = restantes - 1]_vars

\* a click in the gap between the first two columns has just been handled
C7_Witness ==
    /\ pc = "for"
    /\ coord = <<100, 90>>
    /\ acertos = {}

\* C8: a click on a card that is already face-up and unmatched changes no
\* card (so the number of unmatched face-up cards stays the same), and a
\* resolver run that finds one such card changes nothing.
C8_FlipIdempotent ==
    /\ [][(PassoClique /\ acertos' # {}
            /\ \A i \in acertos' : cartas[i].virada /\ ~cartas[i].combinada)
            => cartas' = cartas]_vars
    /\ [][(PassoOcultar /\ Cardinality(ViradasNaoCombinadas) = 1)
            => cartas' = cartas /\ pc' = "eventos"]_vars

\* exactly one event of this frame has been handled, a click on an unmatched
\* face-up card, and three such cards are on the board: a frame never starts
\* with two, and a click adds at most one, so the card was already face-up
C8_Witness ==
    /\ pc = "for"
    /\ restantes = MaxEventos - 1
    /\ coord # <<>>
    /\ acertos # {}
    /\ acertos \subseteq ViradasNaoCombinadas
    /\ Cardinality(ViradasNaoCombinadas) = 3

\* C9: foi_clicada is true exactly for the points of the closed rectangle
\* [margem+posx, margem+posx+largura] x [margem+posy, margem+posy+altura].
C9_ClosedIntervalHit ==
    coord # <<>> =>
        \A i \in DOMAIN cartas :
            i \in acertos <=>
                /\ margem + cartas[i].posx <= coord[1]
                /\ coord[1] <= margem + cartas[i].posx + largura
                /\ margem + cartas[i].posy <= coord[2]
                /\ coord[2] <= margem + cartas[i].posy + altura

\* the bottom-right corner of the last card has been tested and is a hit
C9_Witness ==
    /\ pc = "clique"
    /\ coord = <<margem + cartas[2 * ParesDoJogo - 1].posx + largura,
                margem + cartas[2 * ParesDoJogo - 1].posy + altura>>
    /\ acertos = {2 * ParesDoJogo - 1}

\* C10: no point lies in the rectangles of two cards, and a trata_clique call
\* flips at most one card, the first one in list order that contains the point.
C10_NonOverlapping ==
    /\ Cardinality(acertos) <= 1
    /\ pc = "clicado" =>
        LET viradas == {i \in DOMAIN cartas : cartas[i].virada}
        IN  /\ Cardinality(viradas) <= 1
            /\ viradas = {i \in acertos : \A j \in acertos : i <= j}

\* a click in the second row has flipped exactly one card
C10_Witness ==
    /\ pc = "clicado"
    /\ {i \in DOMAIN cartas : cartas[i].virada} = {cartas_por_linha + 1}

\* the loop has left the while (break taken) or the program has ended
Terminou == pc \in {"encerra", "fim"}

\* C11: the loop is left only by a step that handles a QUIT event, that step
\* goes straight to encerra_jogo without rendering, and nothing runs after it
\* but encerra_jogo; and the program for ever either polls its events again
\* or has ended: the loop never stops by itself (every sleep, render and tick
\* is followed by another poll, also on the solved board), so a QUIT that is
\* delivered is polled, and once a QUIT is handled the program ends (from
\* encerra_jogo no poll is reachable).
C11_QuitTerminates ==
    /\ [][(Terminou' /\ ~Terminou) => (EventoQuit /\ pc' = "encerra")]_vars
    /\ [][Terminou => (pc = "encerra" /\ pc' = "fim" /\ cartas' = cartas)]_vars
    /\ []<>(pc = "for" \/ pc = "fim")

\* the program has ended on a solved board
C11_Witness ==
    /\ pc = "fim"
    /\ Combinadas = DOMAIN cartas

\* C12: a resolver run that finds fewer than two unmatched face-up cards
\* changes no card and does not sleep.
C12_IdleNoOp ==
    [][(PassoOcultar /\ Cardinality(ViradasNaoCombinadas) < 2)
        => cartas' = cartas /\ pc' = "eventos"]_vars

\* the resolver has just run over a board with one unmatched face-up card
\* (after a sleep no unmatched card is face-up, so the run did not sleep)
C12_Witness ==
    /\ pc = "eventos"
    /\ Cardinality(ViradasNaoCombinadas) = 1

\* the resolver finds exactly two unmatched face-up cards, of different values
Desencontro ==
    /\ Cardinality(ViradasNaoCombinadas) = 2
    /\ \E i, j \in ViradasNaoCombinadas : cartas[i].valor # cartas[j].valor

\* the resolver finds exactly two unmatched face-up cards, of equal values
Encontro ==
    /\ Cardinality(ViradasNaoCombinadas) = 2
    /\ \A i, j \in ViradasNaoCombinadas : cartas[i].valor = cartas[j].valor

\* C13: on a mismatch the resolver pauses first and hides afterwards: when the
\* pause begins the two mismatched cards are still face-up, and they are
\* face-down when it is over.
C13_PauseBeforeHide ==
    /\ [][(PassoOcultar /\ Desencontro)
            => /\ pc' = "sleep"
               /\ \A i \in ViradasNaoCombinadas : cartas'[i].virada]_vars
    /\ [][(pc = "sleep" /\ pc' # "sleep") => ViradasNaoCombinadas' = {}]_vars

\* C14: the resolver pauses exactly when the two cards it found differ in
\* value; on a match it marks the pair and does not pause.
C14_PauseOnlyOnMismatch ==
    [][PassoOcultar => (pc' = "sleep" <=> Desencontro)]_vars

\* C15: a card flipped by a click is drawn face-up before a resolver run can
\* hide it. Cards are flipped only by clicks of the event loop and hidden only
\* by the resolver; from the event loop the only way to the resolver is
\* through renderiza and the tick, with the cards untouched on the way (or
\* the loop quits); and renderiza draws every face-up card as carta_virada.
C15_RenderBeforeHide ==
    /\ [][\A i \in DOMAIN cartas :
            /\ (~cartas[i].virada /\ cartas'[i].virada) => PassoClique
            /\ (cartas[i].virada /\ ~cartas'[i].virada) => PassoOcultar]_vars
    /\ [][pc = "for" => pc' \in {"for", "renderiza", "encerra"}]_vars
    /\ [][pc = "renderiza"
            => /\ pc' = "tick"
               /\ cartas' = cartas
               /\ \A i \in DOMAIN cartas :
                    cartas[i].virada => Desenho(cartas)[i] = "carta_virada"]_vars
    /\ [][pc = "tick" => pc' = "ocultar" /\ cartas' = cartas]_vars
    /\ [][pc' = "ocultar" => pc = "tick"]_vars

\* a frame showing the second card of a mismatching pair has been rendered and
\* the resolver has not run yet
C15_Witness ==
    /\ pc = "tick"
    /\ Desencontro
    /\ \A i \in ViradasNaoCombinadas : Desenho(cartas)[i] = "carta_virada"

\* C16: the two cards of a value always have the same matched flag, and a step
\* that marks a card marks exactly two cards, distinct and of equal value.
C16_PairConsistency ==
    /\ [](\A i, j \in DOMAIN cartas :
            cartas[i].valor = cartas[j].valor => cartas[i].combinada = cartas[j].combinada)
    /\ [](Cardinality(Combinadas) % 2 = 0)
    /\ [][Combinadas' # Combinadas
            => \E i, j \in DOMAIN cartas :
                /\ i # j
                /\ cartas[i].indice # cartas[j].indice
                /\ cartas[i].valor = cartas[j].valor
                /\ Combinadas' = Combinadas \cup {i, j}
                /\ {i, j} \cap Combinadas = {}]_vars

\* one pair has been matched and the next frame has polled its events
C16_Witness ==
    /\ pc = "for"
    /\ Cardinality(Combinadas) = 2
    /\ Cardinality(ViradasNaoCombinadas) = 1

\* C17: every card starts face-down and unmatched; a click changes only the
\* face of the cards that contain the point and no matched flag; a card is
\* turned face-up only by a click on it, and marked only while face-up.
C17_NoAliasing ==
    /\ \A i \in DOMAIN cartas : ~cartas[i].virada /\ ~cartas[i].combinada
    /\ [][PassoClique
            => /\ \A i \in DOMAIN cartas \ acertos' : cartas'[i] = cartas[i]
               /\ \A i \in DOMAIN cartas : cartas'[i].combinada = cartas[i].combinada]_vars
    /\ [][\A i \in DOMAIN cartas :
            /\ (~cartas[i].virada /\ cartas'[i].virada) => (PassoClique /\ i \in acertos')
            /\ (~cartas[i].combinada /\ cartas'[i].combinada) => cartas[i].virada]_vars

\* a click has just flipped card 1 and every other card is still face-down
\* and unmatched
C17_Witness ==
    /\ pc = "for"
    /\ acertos = {1}
    /\ \A i \in DOMAIN cartas : cartas[i].virada <=> i = 1
    /\ Combinadas = {}

\* C18: the point given to trata_clique for a button event is the position
\* carried by that event.
C18_ClickUsesEventPos ==
    [][\A e \in Eventos : MouseButtonUp(e) => coord' = e.pos]_vars

====
